---- MODULE Spec2Model ----
(***************************************************************************)
(* The chat session state machine of the ChatInterface component           *)
(* (frontend/src/components/Chat/ChatInterface.tsx).                       *)
(*                                                                         *)
(* One action per socket handler and per user-interface handler.  React    *)
(* applies the functional updates a handler queues (setChatState(prev =>   *)
(* ...)) in order and before the next task of the event loop runs, so a    *)
(* handler is one atomic step.                                             *)
(*                                                                         *)
(* A message carries text, sender, buttons, quick_replies and metadata.    *)
(* Its id (Math.random), timestamp (new Date) and suggestions are written  *)
(* once and read by no handler; they are not carried.  The only use made   *)
(* of metadata is the server's: it names the emitted `message` event the   *)
(* response answers (0: none).                                             *)
(*                                                                         *)
(* The Redux store (frontend/src/store) is a second state machine: its     *)
(* state is the five slices, its one operation is dispatch.  No component  *)
(* dispatches, so the store is driven by any action of its slices, and it  *)
(* has specifications of its own: SpecChatSlice, SpecUser, SpecCourses for *)
(* one slice each, SpecStore for the five together.                        *)
(*                                                                         *)
(* The routes of App.tsx are a third: the state is the location and the    *)
(* element <Routes> renders for it, the one operation is the opening of a  *)
(* URL (SpecRoutes).                                                       *)
(***************************************************************************)
EXTENDS Integers, Sequences, FiniteSets, TLC

VARIABLES
    chatState,      \* useState<ChatState>
    inputMessage,   \* useState('')
    clientId,       \* useState(() => Math.random()...)
    socketRef,      \* useRef<Socket | null>: "null", "disconnected", "connected"
    emitted,        \* the `message` events handed to socket.emit, in order
    toast,          \* the most recent toast raised
    lastEvt,        \* history: the handler that ran last, with its argument
                    \* ("ui": a handler that neither sends nor receives)
    lastTypingEvt,  \* history: is_typing of the most recent `typing` event
    nConnect,       \* history: number of `connect` events
    nBotResponse,   \* history: number of `bot_response` events
    nSend,          \* history: number of sendMessage calls with non-blank text
    store,          \* configureStore: the state of the five slices
    dispatched,     \* history: the actions dispatched to the store, in order
    router          \* <Router>: the URL asked for, the location and the element
                    \* <Routes> renders for it

chatVars == <<chatState, inputMessage, clientId, socketRef, emitted, toast,
              lastEvt, lastTypingEvt, nConnect, nBotResponse, nSend>>

storeVars == <<store, dispatched>>

appVars == <<chatVars, storeVars>>

vars == <<chatState, inputMessage, clientId, socketRef, emitted, toast,
          lastEvt, lastTypingEvt, nConnect, nBotResponse, nSend,
          store, dispatched, router>>

-----------------------------------------------------------------------------
(* Bounds *)

MaxMsgs == 3

\* the number of actions dispatched to one slice
MaxDispatch == 3

\* the number of actions dispatched to the store of five slices
MaxStoreDispatch == 2

-----------------------------------------------------------------------------
(* Optional values: `undefined` or a value *)

undefined == [some |-> FALSE]

Some(v) == [some |-> TRUE, value |-> v]

-----------------------------------------------------------------------------
(* Strings *)

IsWhitespace(c) == c \in {" ", "\t", "\n"}

RECURSIVE TrimStart(_)
TrimStart(s) ==
    IF Len(s) > 0 /\ IsWhitespace(SubSeq(s, 1, 1))
    THEN TrimStart(SubSeq(s, 2, Len(s)))
    ELSE s

RECURSIVE TrimEnd(_)
TrimEnd(s) ==
    IF Len(s) > 0 /\ IsWhitespace(SubSeq(s, Len(s), Len(s)))
    THEN TrimEnd(SubSeq(s, 1, Len(s) - 1))
    ELSE s

\* String.prototype.trim
trim(s) == TrimEnd(TrimStart(s))

-----------------------------------------------------------------------------
(* Inputs *)

\* what Math.random().toString(36).substr(2, 9) gave: the value is only copied
\* into the sender of emitted events, so one representative stands for all
ClientIds == {"k3x9q2m1z"}

\* what the user may type into the text field
InputTexts == {"", " \n", " hi "}

WelcomeText == "Welcome to ChatBotX! I'm your AI Education Assistant. How can I help you today?"

WelcomeQuickReplies ==
    << [title |-> "Browse Courses", payload |-> "/courses"],
       [title |-> "Enrollment Help", payload |-> "/enrollment"],
       [title |-> "FAQ", payload |-> "/faq"],
       [title |-> "Contact Support", payload |-> "/support"] >>

\* the data of a bot_response event, less its metadata
BotData ==
    { [text |-> "Pick one", buttons |-> undefined,
       quick_replies |-> Some(<< [title |-> "Yes", payload |-> "/yes"],
                                 [title |-> " ", payload |-> "/blank"] >>)],
      [text |-> "See the **course**",
       buttons |-> Some(<< [title |-> "Enroll", payload |-> "/enroll"] >>),
       quick_replies |-> undefined] }

\* the data of a system event
SystemData ==
    { [message_type |-> "error", message |-> "Rate limited"],
      [message_type |-> "info", message |-> "Session restored"],
      [message_type |-> "warning", message |-> "Session restored"] }

-----------------------------------------------------------------------------
(* Redux: actions and the helpers of the reducers *)

\* `null`
null == [some |-> FALSE]

\* createSlice names the action of reducer `key` of slice `name`
ActionType(name, key) == name \o "/" \o key

Action(type, payload) == [type |-> type, payload |-> payload]

\* { ...a, ...b }
spread(a, b) ==
    [k \in (DOMAIN a) \cup (DOMAIN b) |-> IF k \in DOMAIN b THEN b[k] ELSE a[k]]

StartsWith(s, prefix) == Len(s) >= Len(prefix) /\ SubSeq(s, 1, Len(prefix)) = prefix

EndsWith(s, suffix) ==
    Len(s) >= Len(suffix) /\ SubSeq(s, Len(s) - Len(suffix) + 1, Len(s)) = suffix

-----------------------------------------------------------------------------
(* The chat slice (chatSlice.ts) *)

chatInitialState ==
    [messages |-> <<>>, isTyping |-> FALSE, isConnected |-> FALSE,
     currentLanguage |-> "en", sessionId |-> null, conversationHistory |-> <<>>]

chat_addMessage(state, payload) ==
    [state EXCEPT !.messages = Append(state.messages, payload),
                  !.conversationHistory = Append(state.conversationHistory, payload)]

\* setTyping as a bug would have it: the payload is not read
chat_setTyping_on(state, payload) == [state EXCEPT !.isTyping = TRUE]

chat_setTyping(state, payload) == [state EXCEPT !.isTyping = payload]

chat_setConnected(state, payload) == [state EXCEPT !.isConnected = payload]

chat_setLanguage(state, payload) == [state EXCEPT !.currentLanguage = payload]

chat_setSessionId(state, payload) == [state EXCEPT !.sessionId = Some(payload)]

\* clearMessages as a bug would have it: the history goes with the messages
chat_clearMessages_all(state) ==
    [state EXCEPT !.messages = <<>>, !.conversationHistory = <<>>]

chat_clearMessages(state) == [state EXCEPT !.messages = <<>>]

chat_clearHistory(state) == [state EXCEPT !.conversationHistory = <<>>]

chatReducer(state, action) ==
    CASE action.type = ActionType("chat", "addMessage") ->
             chat_addMessage(state, action.payload)
      [] action.type = ActionType("chat", "setTyping") ->
             chat_setTyping(state, action.payload)
      [] action.type = ActionType("chat", "setConnected") ->
             chat_setConnected(state, action.payload)
      [] action.type = ActionType("chat", "setLanguage") ->
             chat_setLanguage(state, action.payload)
      [] action.type = ActionType("chat", "setSessionId") ->
             chat_setSessionId(state, action.payload)
      [] action.type = ActionType("chat", "clearMessages") ->
             chat_clearMessages(state)
      [] action.type = ActionType("chat", "clearHistory") ->
             chat_clearHistory(state)
      [] OTHER -> state

\* the messages the chat slice is given
SliceMessages ==
    { [text |-> "hello", sender |-> "user", buttons |-> undefined,
       quick_replies |-> undefined, metadata |-> undefined],
      [text |-> "Pick one", sender |-> "bot", buttons |-> undefined,
       quick_replies |-> Some(<< [title |-> "Yes", payload |-> "/yes"] >>),
       metadata |-> undefined] }

-----------------------------------------------------------------------------
(* The user slice (userSlice.ts) *)

userInitialState ==
    [currentUser |-> null, isAuthenticated |-> FALSE, isLoading |-> FALSE,
     error |-> null]

user_setUser(state, payload) ==
    [state EXCEPT !.currentUser = Some(payload), !.isAuthenticated = TRUE,
                  !.isLoading = FALSE, !.error = null]

\* clearUser as a bug would have it: the flag is forgotten
user_clearUser_keepsFlag(state) ==
    [state EXCEPT !.currentUser = null, !.isLoading = FALSE, !.error = null]

user_clearUser(state) ==
    [state EXCEPT !.currentUser = null, !.isAuthenticated = FALSE,
                  !.isLoading = FALSE, !.error = null]

user_setLoading(state, payload) == [state EXCEPT !.isLoading = payload]

user_setError(state, payload) ==
    [state EXCEPT !.error = Some(payload), !.isLoading = FALSE]

user_updateUserPreferences(state, payload) ==
    IF state.currentUser.some
    THEN [state EXCEPT !.currentUser.value.preferences =
                           spread(state.currentUser.value.preferences, payload)]
    ELSE state

\* the user reducer as a bug would have it: it answers to the name of the
\* reducer alone, whatever slice the action is of
userReducer_anySlice(state, action) ==
    CASE EndsWith(action.type, "/setUser") -> user_setUser(state, action.payload)
      [] EndsWith(action.type, "/clearUser") -> user_clearUser(state)
      [] EndsWith(action.type, "/setLoading") -> user_setLoading(state, action.payload)
      [] EndsWith(action.type, "/setError") -> user_setError(state, action.payload)
      [] EndsWith(action.type, "/updateUserPreferences") ->
             user_updateUserPreferences(state, action.payload)
      [] OTHER -> state

userReducer(state, action) ==
    CASE action.type = ActionType("user", "setUser") ->
             user_setUser(state, action.payload)
      [] action.type = ActionType("user", "clearUser") ->
             user_clearUser(state)
      [] action.type = ActionType("user", "setLoading") ->
             user_setLoading(state, action.payload)
      [] action.type = ActionType("user", "setError") ->
             user_setError(state, action.payload)
      [] action.type = ActionType("user", "updateUserPreferences") ->
             user_updateUserPreferences(state, action.payload)
      [] OTHER -> state

\* the users the slice is given (id, role and preferences; the other fields
\* of User are strings no reducer reads)
Users ==
    { [id |-> "u1", name |-> "Ada", role |-> "student",
       preferences |-> [language |-> "en", theme |-> "light", notifications |-> TRUE]],
      [id |-> "u2", name |-> "Bob", role |-> "admin",
       preferences |-> [language |-> "es", theme |-> "dark", notifications |-> FALSE]] }

\* Partial<User['preferences']>
PreferenceUpdates ==
    { [theme |-> "dark"], [language |-> "es", notifications |-> FALSE] }

-----------------------------------------------------------------------------
(* The courses slice (coursesSlice.ts) *)

UpperCase == "ABCDEFGHIJKLMNOPQRSTUVWXYZ"

LowerCase == "abcdefghijklmnopqrstuvwxyz"

toLowerChar(c) ==
    IF \E i \in 1..Len(UpperCase) : SubSeq(UpperCase, i, i) = c
    THEN LET i == CHOOSE i \in 1..Len(UpperCase) : SubSeq(UpperCase, i, i) = c
         IN  SubSeq(LowerCase, i, i)
    ELSE c

\* String.prototype.toLowerCase
RECURSIVE toLowerCase(_)
toLowerCase(s) ==
    IF Len(s) = 0 THEN s
    ELSE toLowerChar(SubSeq(s, 1, 1)) \o toLowerCase(SubSeq(s, 2, Len(s)))

\* String.prototype.includes
includes(s, q) ==
    \E i \in 1..(Len(s) - Len(q) + 1) : SubSeq(s, i, i + Len(q) - 1) = q

DefaultFilters ==
    [category |-> "", level |-> "", priceRange |-> <<0, 1000>>, searchQuery |-> ""]

coursesInitialState ==
    [courses |-> <<>>, filteredCourses |-> <<>>, selectedCourse |-> null,
     categories |-> <<>>, isLoading |-> FALSE, error |-> null,
     filters |-> DefaultFilters,
     pagination |-> [page |-> 1, limit |-> 12, total |-> 0]]

courses_setCourses(state, payload) ==
    [state EXCEPT !.courses = payload, !.filteredCourses = payload,
                  !.isLoading = FALSE, !.error = null]

courses_setSelectedCourse(state, payload) ==
    [state EXCEPT !.selectedCourse = Some(payload)]

courses_setCategories(state, payload) == [state EXCEPT !.categories = payload]

courses_setLoading(state, payload) == [state EXCEPT !.isLoading = payload]

courses_setError(state, payload) ==
    [state EXCEPT !.error = Some(payload), !.isLoading = FALSE]

courses_setFilters(state, payload) ==
    [state EXCEPT !.filters = spread(state.filters, payload)]

courses_setPagination(state, payload) ==
    [state EXCEPT !.pagination = spread(state.pagination, payload)]

\* the search filter of filterCourses
searchFilter(filtered, searchQuery) ==
    LET query == toLowerCase(searchQuery)
    IN  SelectSeq(filtered, LAMBDA course :
            \/ includes(toLowerCase(course.title), query)
            \/ includes(toLowerCase(course.description), query)
            \/ includes(toLowerCase(course.instructor), query))

\* the price filter of filterCourses as a bug would have it: bounds excluded
priceFilter_exclusive(filtered, priceRange) ==
    SelectSeq(filtered, LAMBDA course :
        course.price > priceRange[1] /\ course.price < priceRange[2])

\* the price filter of filterCourses
priceFilter(filtered, priceRange) ==
    SelectSeq(filtered, LAMBDA course :
        course.price >= priceRange[1] /\ course.price <= priceRange[2])

courses_filterCourses(state) ==
    LET byCategory ==
            IF state.filters.category # ""
            THEN SelectSeq(state.courses,
                           LAMBDA course : course.category = state.filters.category)
            ELSE state.courses
        byLevel ==
            IF state.filters.level # ""
            THEN SelectSeq(byCategory,
                           LAMBDA course : course.level = state.filters.level)
            ELSE byCategory
        byPrice == priceFilter(byLevel, state.filters.priceRange)
        filtered ==
            IF state.filters.searchQuery # ""
            THEN searchFilter(byPrice, state.filters.searchQuery)
            ELSE byPrice
    IN  [state EXCEPT !.filteredCourses = filtered,
                      !.pagination.total = Len(filtered)]

courses_clearFilters(state) ==
    [state EXCEPT !.filters = DefaultFilters, !.filteredCourses = state.courses]

coursesReducer(state, action) ==
    CASE action.type = ActionType("courses", "setCourses") ->
             courses_setCourses(state, action.payload)
      [] action.type = ActionType("courses", "setSelectedCourse") ->
             courses_setSelectedCourse(state, action.payload)
      [] action.type = ActionType("courses", "setCategories") ->
             courses_setCategories(state, action.payload)
      [] action.type = ActionType("courses", "setLoading") ->
             courses_setLoading(state, action.payload)
      [] action.type = ActionType("courses", "setError") ->
             courses_setError(state, action.payload)
      [] action.type = ActionType("courses", "setFilters") ->
             courses_setFilters(state, action.payload)
      [] action.type = ActionType("courses", "setPagination") ->
             courses_setPagination(state, action.payload)
      [] action.type = ActionType("courses", "filterCourses") ->
             courses_filterCourses(state)
      [] action.type = ActionType("courses", "clearFilters") ->
             courses_clearFilters(state)
      [] OTHER -> state

\* the courses the slice is given (the fields of Course that a reducer reads)
CourseAI ==
    [id |-> "c1", title |-> "Intro course", description |-> "Basics of AI",
     category |-> "ai", level |-> "beginner", price |-> 100, instructor |-> "Eve Stone"]

CourseWeb ==
    [id |-> "c2", title |-> "Web Development", description |-> "React and Redux",
     category |-> "web", level |-> "advanced", price |-> 1000, instructor |-> "Bob Lee"]

CourseDeep ==
    [id |-> "c3", title |-> "Deep Learning", description |-> "Neural networks",
     category |-> "ai", level |-> "advanced", price |-> 1500, instructor |-> "Aida Ruiz"]

CourseLists ==
    { <<CourseAI, CourseWeb, CourseDeep>>, <<CourseDeep, CourseAI>> }

\* Partial<CoursesState['filters']>
FilterUpdates ==
    { [category |-> "ai"], [level |-> "advanced"], [priceRange |-> <<100, 1000>>],
      [searchQuery |-> "AI"], [searchQuery |-> "web"],
      [category |-> "", level |-> "beginner"] }

\* Partial<CoursesState['pagination']>
PaginationUpdates == { [page |-> 2], [total |-> 7, limit |-> 24] }

-----------------------------------------------------------------------------
(* The ui slice (uiSlice.ts).  A notification's id is drawn by Math.random *)
(* in the reducer; the draw is carried by the action, in `random`.  Its    *)
(* timestamp is read by no reducer and is not carried.                     *)

uiInitialState ==
    [theme |-> "light", sidebarOpen |-> FALSE, loading |-> FALSE,
     notifications |-> <<>>,
     modals |-> [settingsOpen |-> FALSE, helpOpen |-> FALSE, feedbackOpen |-> FALSE],
     chatSettings |-> [soundEnabled |-> TRUE, notificationsEnabled |-> TRUE,
                       autoScroll |-> TRUE, compactMode |-> FALSE]]

ui_setTheme(state, payload) == [state EXCEPT !.theme = payload]

ui_toggleSidebar(state) == [state EXCEPT !.sidebarOpen = ~state.sidebarOpen]

ui_setSidebarOpen(state, payload) == [state EXCEPT !.sidebarOpen = payload]

ui_setLoading(state, payload) == [state EXCEPT !.loading = payload]

ui_addNotification(state, payload, random) ==
    [state EXCEPT !.notifications =
        Append(state.notifications,
               [type |-> payload.type, message |-> payload.message, id |-> random])]

ui_removeNotification(state, payload) ==
    [state EXCEPT !.notifications =
        SelectSeq(state.notifications, LAMBDA n : n.id # payload)]

ui_clearNotifications(state) == [state EXCEPT !.notifications = <<>>]

ui_setModalOpen(state, payload) ==
    [state EXCEPT !.modals[payload.modal] = payload.open]

ui_updateChatSettings(state, payload) ==
    [state EXCEPT !.chatSettings = spread(state.chatSettings, payload)]

uiReducer(state, action) ==
    CASE action.type = ActionType("ui", "setTheme") ->
             ui_setTheme(state, action.payload)
      [] action.type = ActionType("ui", "toggleSidebar") ->
             ui_toggleSidebar(state)
      [] action.type = ActionType("ui", "setSidebarOpen") ->
             ui_setSidebarOpen(state, action.payload)
      [] action.type = ActionType("ui", "setLoading") ->
             ui_setLoading(state, action.payload)
      [] action.type = ActionType("ui", "addNotification") ->
             ui_addNotification(state, action.payload, action.random)
      [] action.type = ActionType("ui", "removeNotification") ->
             ui_removeNotification(state, action.payload)
      [] action.type = ActionType("ui", "clearNotifications") ->
             ui_clearNotifications(state)
      [] action.type = ActionType("ui", "setModalOpen") ->
             ui_setModalOpen(state, action.payload)
      [] action.type = ActionType("ui", "updateChatSettings") ->
             ui_updateChatSettings(state, action.payload)
      [] OTHER -> state

\* what Math.random().toString(36) may give
NotificationIds == {"0.a1", "0.b2"}

-----------------------------------------------------------------------------
(* The analytics slice (analyticsSlice.ts).  The initial date range is the *)
(* week up to the day the module loads.                                    *)

analyticsInitialState ==
    [conversationMetrics |-> <<>>, intentMetrics |-> <<>>,
     userEngagementMetrics |-> <<>>, totalConversations |-> 0, totalUsers |-> 0,
     averageSatisfaction |-> 0, mostCommonIntents |-> <<>>, isLoading |-> FALSE,
     error |-> null, dateRange |-> [start |-> "2026-10-28", end |-> "2026-11-04"]]

analytics_setConversationMetrics(state, payload) ==
    [state EXCEPT !.conversationMetrics = payload]

analytics_setIntentMetrics(state, payload) == [state EXCEPT !.intentMetrics = payload]

analytics_setUserEngagementMetrics(state, payload) ==
    [state EXCEPT !.userEngagementMetrics = payload]

analytics_setTotalConversations(state, payload) ==
    [state EXCEPT !.totalConversations = payload]

analytics_setTotalUsers(state, payload) == [state EXCEPT !.totalUsers = payload]

analytics_setAverageSatisfaction(state, payload) ==
    [state EXCEPT !.averageSatisfaction = payload]

analytics_setMostCommonIntents(state, payload) ==
    [state EXCEPT !.mostCommonIntents = payload]

analytics_setLoading(state, payload) == [state EXCEPT !.isLoading = payload]

analytics_setError(state, payload) ==
    [state EXCEPT !.error = Some(payload), !.isLoading = FALSE]

analytics_setDateRange(state, payload) == [state EXCEPT !.dateRange = payload]

analytics_clearAnalytics(state) ==
    [state EXCEPT !.conversationMetrics = <<>>, !.intentMetrics = <<>>,
                  !.userEngagementMetrics = <<>>, !.totalConversations = 0,
                  !.totalUsers = 0, !.averageSatisfaction = 0,
                  !.mostCommonIntents = <<>>, !.error = null]

analyticsReducer(state, action) ==
    CASE action.type = ActionType("analytics", "setConversationMetrics") ->
             analytics_setConversationMetrics(state, action.payload)
      [] action.type = ActionType("analytics", "setIntentMetrics") ->
             analytics_setIntentMetrics(state, action.payload)
      [] action.type = ActionType("analytics", "setUserEngagementMetrics") ->
             analytics_setUserEngagementMetrics(state, action.payload)
      [] action.type = ActionType("analytics", "setTotalConversations") ->
             analytics_setTotalConversations(state, action.payload)
      [] action.type = ActionType("analytics", "setTotalUsers") ->
             analytics_setTotalUsers(state, action.payload)
      [] action.type = ActionType("analytics", "setAverageSatisfaction") ->
             analytics_setAverageSatisfaction(state, action.payload)
      [] action.type = ActionType("analytics", "setMostCommonIntents") ->
             analytics_setMostCommonIntents(state, action.payload)
      [] action.type = ActionType("analytics", "setLoading") ->
             analytics_setLoading(state, action.payload)
      [] action.type = ActionType("analytics", "setError") ->
             analytics_setError(state, action.payload)
      [] action.type = ActionType("analytics", "setDateRange") ->
             analytics_setDateRange(state, action.payload)
      [] action.type = ActionType("analytics", "clearAnalytics") ->
             analytics_clearAnalytics(state)
      [] OTHER -> state

-----------------------------------------------------------------------------
(* configureStore: the root reducer hands every action to every slice *)

storeInitialState ==
    [chat |-> chatInitialState, user |-> userInitialState,
     courses |-> coursesInitialState, analytics |-> analyticsInitialState,
     ui |-> uiInitialState]

rootReducer(state, action) ==
    [chat |-> chatReducer(state.chat, action),
     user |-> userReducer(state.user, action),
     courses |-> coursesReducer(state.courses, action),
     analytics |-> analyticsReducer(state.analytics, action),
     ui |-> uiReducer(state.ui, action)]

-----------------------------------------------------------------------------
(* Initial state: the component as constructed, before its effect runs *)

Init ==
    /\ chatState = [messages |-> <<>>, isTyping |-> FALSE, isConnected |-> FALSE,
                    currentLanguage |-> "en", isFullscreen |-> FALSE,
                    showSettings |-> FALSE]
    /\ inputMessage = ""
    /\ clientId \in ClientIds
    /\ socketRef = "null"
    /\ emitted = <<>>
    /\ toast = undefined
    /\ lastEvt = [type |-> "none"]
    /\ lastTypingEvt = undefined
    /\ nConnect = 0
    /\ nBotResponse = 0
    /\ nSend = 0
    /\ store = storeInitialState
    /\ dispatched = <<>>
    /\ router = [requested |-> undefined, pathname |-> "/",
                 element |-> "LandingPage", redirected |-> FALSE]

-----------------------------------------------------------------------------
(* State updates *)

\* addMessage as a bug would have it: newest first
addMessage_prepend(prev, message) ==
    [prev EXCEPT !.messages = <<message>> \o prev.messages]

\* addMessage: setChatState(prev => ({...prev, messages: [...prev.messages, message]}))
addMessage(prev, message) ==
    [prev EXCEPT !.messages = Append(prev.messages, message)]


\* the connect handler as a bug would have it: a fresh list on every connect
onConnect_reset(prev) ==
    [prev EXCEPT !.isConnected = TRUE,
                 !.messages = << [text |-> WelcomeText, sender |-> "bot",
                                  buttons |-> undefined,
                                  quick_replies |-> Some(WelcomeQuickReplies),
                                  metadata |-> undefined] >>]

\* connect handler: isConnected true, then the welcome message
onConnect(prev) ==
    addMessage([prev EXCEPT !.isConnected = TRUE],
               [text |-> WelcomeText, sender |-> "bot", buttons |-> undefined,
                quick_replies |-> Some(WelcomeQuickReplies), metadata |-> undefined])

\* the disconnect handler as a bug would have it: only the toast
onDisconnect_toastOnly(prev) == prev

\* disconnect handler
onDisconnect(prev) == [prev EXCEPT !.isConnected = FALSE]

\* the bot_response handler as a bug would have it: the buttons are not copied
onBotResponse_noButtons(prev, data) ==
    [prev EXCEPT !.isTyping = FALSE,
                 !.messages = Append(prev.messages,
                     [text |-> data.text, sender |-> "bot", buttons |-> undefined,
                      quick_replies |-> data.quick_replies,
                      metadata |-> data.metadata])]

\* the bot_response handler as a bug would have it: a response that repeats
\* the last message is taken for a duplicate
onBotResponse_dedup(prev, data) ==
    LET message == [text |-> data.text, sender |-> "bot", buttons |-> data.buttons,
                    quick_replies |-> data.quick_replies,
                    metadata |-> data.metadata]
        n == Len(prev.messages)
    IN  IF n > 0 /\ prev.messages[n].text = message.text
        THEN [prev EXCEPT !.isTyping = FALSE]
        ELSE [prev EXCEPT !.isTyping = FALSE,
                          !.messages = Append(prev.messages, message)]

\* bot_response handler: isTyping false, then the message built from the data
onBotResponse(prev, data) ==
    addMessage([prev EXCEPT !.isTyping = FALSE],
               [text |-> data.text, sender |-> "bot", buttons |-> data.buttons,
                quick_replies |-> data.quick_replies, metadata |-> data.metadata])

\* typing handler
onTyping(prev, data) == [prev EXCEPT !.isTyping = data.is_typing]

\* the early return as a bug would have it: no trim
sendMessageReturns_noTrim(message, socket) == message = "" \/ socket = "null"

\* sendMessage's early return: if (!message.trim() || !socketRef.current) return
sendMessageReturns(message, socket) == trim(message) = "" \/ socket = "null"

\* sendMessage as a bug would have it: the indicator is left to the server
sendMessageState_noTyping(prev, message) ==
    [prev EXCEPT !.messages = Append(prev.messages,
                     [text |-> message, sender |-> "user", buttons |-> undefined,
                      quick_replies |-> undefined, metadata |-> undefined])]

\* sendMessage as a bug would have it: the message is shown once acknowledged
sendMessageState_noInsert(prev, message) == [prev EXCEPT !.isTyping = TRUE]

\* sendMessage: addMessage(userMessage), then isTyping true
sendMessageState(prev, message) ==
    [addMessage(prev, [text |-> message, sender |-> "user", buttons |-> undefined,
                       quick_replies |-> undefined, metadata |-> undefined])
        EXCEPT !.isTyping = TRUE]

\* the emitted object as a bug would have it: the payload is left out
sendMessageEvent_noPayload(sender, message, payload, language) ==
    [sender |-> sender, message |-> message, payload |-> undefined,
     metadata |-> [language |-> language]]

\* sendMessage: the object given to socketRef.current.emit('message', ...)
sendMessageEvent(sender, message, payload, language) ==
    [sender |-> sender, message |-> message, payload |-> payload,
     metadata |-> [language |-> language]]

\* the system handler as a bug would have it: every message is good news
systemToast_success(data) == [kind |-> "success", message |-> data.message]

\* system handler: toast.error for message_type 'error', else toast.success
systemToast(data) ==
    IF data.message_type = "error"
    THEN [kind |-> "error", message |-> data.message]
    ELSE [kind |-> "success", message |-> data.message]

toggleFullscreen(prev) == [prev EXCEPT !.isFullscreen = ~prev.isFullscreen]

setShowSettings(prev, open) == [prev EXCEPT !.showSettings = open]

-----------------------------------------------------------------------------
(* sendMessage(message, payload), called by the two user handlers *)

Room == Len(chatState.messages) < MaxMsgs

sendMessage(message, payload) ==
    IF sendMessageReturns(message, socketRef)
    THEN UNCHANGED <<chatState, inputMessage, emitted>>
    ELSE /\ Room
         /\ chatState' = sendMessageState(chatState, message)
         /\ inputMessage' = ""
         /\ emitted' = Append(emitted,
                sendMessageEvent(clientId, message, payload, chatState.currentLanguage))

CountSend(message) ==
    nSend' = IF trim(message) # "" THEN nSend + 1 ELSE nSend

\* the chips and buttons rendered by renderMessage: each message's
\* quick_replies and buttons, when defined
Chips(messages) ==
    UNION { { m.quick_replies.value[i] : i \in 1..Len(m.quick_replies.value) }
            : m \in { messages[j] : j \in { k \in 1..Len(messages) :
                                              messages[k].quick_replies.some } } }
    \cup
    UNION { { m.buttons.value[i] : i \in 1..Len(m.buttons.value) }
            : m \in { messages[j] : j \in { k \in 1..Len(messages) :
                                              messages[k].buttons.some } } }

-----------------------------------------------------------------------------
(* The effect that runs once after the first render *)

initializeConnection ==
    /\ socketRef = "null"
    /\ socketRef' = "disconnected"
    /\ lastEvt' = [type |-> "mount"]
    /\ UNCHANGED <<chatState, inputMessage, clientId, emitted, toast,
                   lastTypingEvt, nConnect, nBotResponse, nSend,
                   store, dispatched, router>>

-----------------------------------------------------------------------------
(* Socket events.  socket.io raises connect and disconnect in turn and      *)
(* delivers server events over an open connection.                         *)

Connect ==
    /\ socketRef = "disconnected"
    /\ Room
    /\ socketRef' = "connected"
    /\ chatState' = onConnect(chatState)
    /\ toast' = Some([kind |-> "success", message |-> "Connected to ChatBotX!"])
    /\ lastEvt' = [type |-> "connect"]
    /\ nConnect' = nConnect + 1
    /\ UNCHANGED <<inputMessage, clientId, emitted, lastTypingEvt, nBotResponse, nSend,
                   store, dispatched, router>>

Disconnect ==
    /\ socketRef = "connected"
    /\ socketRef' = "disconnected"
    /\ chatState' = onDisconnect(chatState)
    /\ toast' = Some([kind |-> "error", message |-> "Connection lost. Reconnecting..."])
    /\ lastEvt' = [type |-> "disconnect"]
    /\ UNCHANGED <<inputMessage, clientId, emitted, lastTypingEvt,
                   nConnect, nBotResponse, nSend,
                   store, dispatched, router>>

BotResponse ==
    /\ socketRef = "connected"
    /\ Room
    /\ \E d \in BotData, r \in 0..Len(emitted) :
         LET data == [text |-> d.text, buttons |-> d.buttons,
                      quick_replies |-> d.quick_replies,
                      metadata |-> Some([in_reply_to |-> r])]
         IN  /\ chatState' = onBotResponse(chatState, data)
             /\ lastEvt' = [type |-> "bot_response", data |-> data]
    /\ nBotResponse' = nBotResponse + 1
    /\ UNCHANGED <<inputMessage, clientId, socketRef, emitted, toast,
                   lastTypingEvt, nConnect, nSend,
                   store, dispatched, router>>

Typing ==
    /\ socketRef = "connected"
    /\ \E b \in BOOLEAN :
         LET data == [is_typing |-> b]
         IN  /\ chatState' = onTyping(chatState, data)
             /\ lastEvt' = [type |-> "typing"]
             /\ lastTypingEvt' = Some(b)
    /\ UNCHANGED <<inputMessage, clientId, socketRef, emitted, toast,
                   nConnect, nBotResponse, nSend,
                   store, dispatched, router>>

System ==
    /\ socketRef = "connected"
    /\ \E data \in SystemData :
         /\ toast' = Some(systemToast(data))
         /\ lastEvt' = [type |-> "system", data |-> data]
    /\ UNCHANGED <<chatState, inputMessage, clientId, socketRef, emitted,
                   lastTypingEvt, nConnect, nBotResponse, nSend,
                   store, dispatched, router>>

-----------------------------------------------------------------------------
(* User actions, possible once the component is mounted *)

\* TextField onChange; the field is disabled while !chatState.isConnected
ChangeInput ==
    /\ socketRef # "null"
    /\ chatState.isConnected
    /\ \E t \in InputTexts :
         /\ inputMessage' = t
         /\ lastEvt' = [type |-> "ui"]
    /\ UNCHANGED <<chatState, clientId, socketRef, emitted, toast,
                   lastTypingEvt, nConnect, nBotResponse, nSend,
                   store, dispatched, router>>

\* form onSubmit
handleInputSubmit ==
    /\ socketRef # "null"
    /\ sendMessage(inputMessage, undefined)
    /\ CountSend(inputMessage)
    /\ lastEvt' = [type |-> "submit", message |-> inputMessage]
    /\ UNCHANGED <<clientId, socketRef, toast, lastTypingEvt, nConnect, nBotResponse,
                   store, dispatched, router>>

\* onClick of a quick-reply chip or of an action button
handleQuickReply ==
    /\ socketRef # "null"
    /\ \E reply \in Chips(chatState.messages) :
         /\ sendMessage(reply.title, Some(reply.payload))
         /\ CountSend(reply.title)
         /\ lastEvt' = [type |-> "quick_reply", title |-> reply.title,
                        payload |-> reply.payload]
    /\ UNCHANGED <<clientId, socketRef, toast, lastTypingEvt, nConnect, nBotResponse,
                   store, dispatched, router>>

ToggleFullscreen ==
    /\ socketRef # "null"
    /\ chatState' = toggleFullscreen(chatState)
    /\ lastEvt' = [type |-> "ui"]
    /\ UNCHANGED <<inputMessage, clientId, socketRef, emitted, toast,
                   lastTypingEvt, nConnect, nBotResponse, nSend,
                   store, dispatched, router>>

\* the Settings button opens the drawer; its close button and onClose close it
ShowSettings ==
    /\ socketRef # "null"
    /\ \E open \in BOOLEAN :
         /\ chatState' = setShowSettings(chatState, open)
         /\ lastEvt' = [type |-> "ui"]
    /\ UNCHANGED <<inputMessage, clientId, socketRef, emitted, toast,
                   lastTypingEvt, nConnect, nBotResponse, nSend,
                   store, dispatched, router>>

-----------------------------------------------------------------------------

Next ==
    \/ initializeConnection
    \/ Connect
    \/ Disconnect
    \/ BotResponse
    \/ Typing
    \/ System
    \/ ChangeInput
    \/ handleInputSubmit
    \/ handleQuickReply
    \/ ToggleFullscreen
    \/ ShowSettings

Spec == Init /\ [][Next]_vars

-----------------------------------------------------------------------------
(* The store: store.dispatch(action) *)

dispatch(action) ==
    /\ store' = rootReducer(store, action)
    /\ dispatched' = Append(dispatched, action)
    /\ UNCHANGED <<chatVars, router>>

\* the actions of the chat slice
ChatDispatch ==
    \/ \E m \in SliceMessages : dispatch(Action(ActionType("chat", "addMessage"), m))
    \/ \E b \in BOOLEAN : dispatch(Action(ActionType("chat", "setTyping"), b))
    \/ \E b \in BOOLEAN : dispatch(Action(ActionType("chat", "setConnected"), b))
    \/ \E l \in {"en", "es"} : dispatch(Action(ActionType("chat", "setLanguage"), l))
    \/ dispatch(Action(ActionType("chat", "setSessionId"), "sess-1"))
    \/ dispatch(Action(ActionType("chat", "clearMessages"), undefined))
    \/ dispatch(Action(ActionType("chat", "clearHistory"), undefined))

\* the actions of the user slice
UserDispatch ==
    \/ \E u \in Users : dispatch(Action(ActionType("user", "setUser"), u))
    \/ dispatch(Action(ActionType("user", "clearUser"), undefined))
    \/ \E b \in BOOLEAN : dispatch(Action(ActionType("user", "setLoading"), b))
    \/ dispatch(Action(ActionType("user", "setError"), "Login failed"))
    \/ \E u \in PreferenceUpdates :
           dispatch(Action(ActionType("user", "updateUserPreferences"), u))

\* the actions of the courses slice
CoursesDispatch ==
    \/ \E l \in CourseLists : dispatch(Action(ActionType("courses", "setCourses"), l))
    \/ dispatch(Action(ActionType("courses", "setSelectedCourse"), CourseAI))
    \/ dispatch(Action(ActionType("courses", "setCategories"), <<"ai", "web">>))
    \/ \E b \in BOOLEAN : dispatch(Action(ActionType("courses", "setLoading"), b))
    \/ dispatch(Action(ActionType("courses", "setError"), "Fetch failed"))
    \/ \E f \in FilterUpdates : dispatch(Action(ActionType("courses", "setFilters"), f))
    \/ \E u \in PaginationUpdates :
           dispatch(Action(ActionType("courses", "setPagination"), u))
    \/ dispatch(Action(ActionType("courses", "filterCourses"), undefined))
    \/ dispatch(Action(ActionType("courses", "clearFilters"), undefined))

\* the actions of the ui slice
UiDispatch ==
    \/ dispatch(Action(ActionType("ui", "setTheme"), "dark"))
    \/ dispatch(Action(ActionType("ui", "toggleSidebar"), undefined))
    \/ dispatch(Action(ActionType("ui", "setSidebarOpen"), FALSE))
    \/ dispatch(Action(ActionType("ui", "setLoading"), TRUE))
    \/ \E r \in NotificationIds :
           dispatch([type |-> ActionType("ui", "addNotification"),
                     payload |-> [type |-> "info", message |-> "Saved"],
                     random |-> r])
    \/ dispatch(Action(ActionType("ui", "removeNotification"), "0.a1"))
    \/ dispatch(Action(ActionType("ui", "clearNotifications"), undefined))
    \/ dispatch(Action(ActionType("ui", "setModalOpen"),
                       [modal |-> "helpOpen", open |-> TRUE]))
    \/ dispatch(Action(ActionType("ui", "updateChatSettings"), [compactMode |-> TRUE]))

\* the actions of the analytics slice
AnalyticsDispatch ==
    \/ dispatch(Action(ActionType("analytics", "setConversationMetrics"),
           << [date |-> "2026-11-03", totalConversations |-> 12, uniqueUsers |-> 5,
               averageResponseTime |-> 2, satisfactionScore |-> 4] >>))
    \/ dispatch(Action(ActionType("analytics", "setIntentMetrics"),
           << [intent |-> "greet", count |-> 9, accuracy |-> 1] >>))
    \/ dispatch(Action(ActionType("analytics", "setUserEngagementMetrics"),
           << [date |-> "2026-11-03", activeUsers |-> 5, sessionDuration |-> 60,
               messagesPerSession |-> 8] >>))
    \/ dispatch(Action(ActionType("analytics", "setTotalConversations"), 12))
    \/ dispatch(Action(ActionType("analytics", "setTotalUsers"), 5))
    \/ dispatch(Action(ActionType("analytics", "setAverageSatisfaction"), 4))
    \/ dispatch(Action(ActionType("analytics", "setMostCommonIntents"), <<"greet">>))
    \/ dispatch(Action(ActionType("analytics", "setLoading"), TRUE))
    \/ dispatch(Action(ActionType("analytics", "setError"), "No data"))
    \/ dispatch(Action(ActionType("analytics", "setDateRange"),
                       [start |-> "2026-01-01", end |-> "2026-01-31"]))
    \/ dispatch(Action(ActionType("analytics", "clearAnalytics"), undefined))

DispatchChat == Len(dispatched) < MaxDispatch /\ ChatDispatch

DispatchUser == Len(dispatched) < MaxDispatch /\ UserDispatch

DispatchCourses == Len(dispatched) < MaxDispatch /\ CoursesDispatch

SpecChatSlice == Init /\ [][DispatchChat]_vars

SpecUser == Init /\ [][DispatchUser]_vars

SpecCourses == Init /\ [][DispatchCourses]_vars

StoreDispatchChat == Len(dispatched) < MaxStoreDispatch /\ ChatDispatch

StoreDispatchUser == Len(dispatched) < MaxStoreDispatch /\ UserDispatch

StoreDispatchCourses == Len(dispatched) < MaxStoreDispatch /\ CoursesDispatch

StoreDispatchUi == Len(dispatched) < MaxStoreDispatch /\ UiDispatch

StoreDispatchAnalytics == Len(dispatched) < MaxStoreDispatch /\ AnalyticsDispatch

StoreNext ==
    \/ StoreDispatchChat
    \/ StoreDispatchUser
    \/ StoreDispatchCourses
    \/ StoreDispatchUi
    \/ StoreDispatchAnalytics

SpecStore == Init /\ [][StoreNext]_vars

-----------------------------------------------------------------------------
(* The routes of App.tsx.  <Routes> renders the element of the route that   *)
(* matches the location best, as react-router v6 ranks and matches them:   *)
(* a route's score grows with its static segments and drops for a splat,   *)
(* patterns match whole paths without regard to case or trailing slashes,  *)
(* and a splat takes the rest of the path.                                 *)

MaxSegments == 2

routes ==
    << [path |-> "/", element |-> "LandingPage", to |-> undefined],
       [path |-> "/chat", element |-> "ChatInterface", to |-> undefined],
       [path |-> "/courses", element |-> "CoursesPage", to |-> undefined],
       [path |-> "/booking", element |-> "BookingPage", to |-> undefined],
       [path |-> "/faq", element |-> "FAQPage", to |-> undefined],
       [path |-> "/analytics", element |-> "AnalyticsPage", to |-> undefined],
       [path |-> "/admin/*", element |-> "AdminDashboard", to |-> undefined],
       [path |-> "*", element |-> "Navigate", to |-> Some("/")] >>

RECURSIVE split(_)
\* path.split("/")
split(s) ==
    IF \E i \in 1..Len(s) : SubSeq(s, i, i) = "/"
    THEN LET i == CHOOSE k \in 1..Len(s) :
                      /\ SubSeq(s, k, k) = "/"
                      /\ \A j \in 1..(k - 1) : SubSeq(s, j, j) # "/"
         IN  <<SubSeq(s, 1, i - 1)>> \o split(SubSeq(s, i + 1, Len(s)))
    ELSE <<s>>

RECURSIVE stripLeadingSlashes(_)
stripLeadingSlashes(s) ==
    IF Len(s) > 0 /\ SubSeq(s, 1, 1) = "/"
    THEN stripLeadingSlashes(SubSeq(s, 2, Len(s)))
    ELSE s

RECURSIVE stripTrailingSlashes(_)
stripTrailingSlashes(s) ==
    IF Len(s) > 0 /\ SubSeq(s, Len(s), Len(s)) = "/"
    THEN stripTrailingSlashes(SubSeq(s, 1, Len(s) - 1))
    ELSE s

\* joinPaths(["", relativePath]): the route's path from the root
joinPaths(relativePath) == "/" \o stripLeadingSlashes(relativePath)

isSplat(segment) == segment = "*"

RECURSIVE sumSegments(_)
sumSegments(segments) ==
    IF segments = << >> THEN 0
    ELSE (IF isSplat(Head(segments)) THEN 0
          ELSE IF StartsWith(Head(segments), ":") THEN 3
          ELSE IF Head(segments) = "" THEN 1
          ELSE 10)
         + sumSegments(Tail(segments))

\* computeScore with a splat taken for a static segment
computeScore_splatStatic(path) ==
    LET segments == split(path)
    IN  Len(segments)
          + sumSegments([k \in 1..Len(segments) |->
                            IF isSplat(segments[k]) THEN "splat" ELSE segments[k]])

\* computeScore: the number of segments, less 2 when one is a splat, plus 10
\* for a static segment, 3 for a parameter and 1 for an empty one
computeScore(path) ==
    LET segments == split(path)
    IN  Len(segments)
          + (IF \E k \in 1..Len(segments) : isSplat(segments[k]) THEN -2 ELSE 0)
          + sumSegments(segments)

allSlashes(s) == \A i \in 1..Len(s) : SubSeq(s, i, i) = "/"

\* matchPath({ path: pattern, caseSensitive: false, end: true }, pathname)
matchPath(pattern, pathname) ==
    LET splat == EndsWith(pattern, "*")
        static == IF splat THEN SubSeq(pattern, 1, Len(pattern) - 1) ELSE pattern
        base == toLowerCase("/" \o stripLeadingSlashes(stripTrailingSlashes(static)))
        name == toLowerCase(pathname)
        rest == SubSeq(name, Len(base) + 1, Len(name))
    IN  /\ StartsWith(name, base)
        /\ IF ~splat THEN allSlashes(rest)
           ELSE IF pattern \in {"*", "/*"} THEN TRUE
           ELSE allSlashes(rest) \/ (Len(rest) >= 2 /\ SubSeq(rest, 1, 1) = "/")

\* rankRouteBranches: the score of each route, computed from its joined path
routeScores == [i \in 1..Len(routes) |-> computeScore(joinPaths(routes[i].path))]

\* matchRoutes: the matching route of the highest score, the earlier of two
\* of the same score; 0 when no route matches
matchRoutes(pathname) ==
    LET matching == { i \in 1..Len(routes) : matchPath(routes[i].path, pathname) }
    IN  IF matching = {} THEN 0
        ELSE CHOOSE i \in matching :
                 \A j \in matching :
                     \/ routeScores[i] > routeScores[j]
                     \/ (routeScores[i] = routeScores[j] /\ i <= j)

\* the segments a URL is made of
Segments ==
    {"chat", "courses", "booking", "faq", "analytics", "admin", "Chat", "users",
     "pricing", ""}

RECURSIVE PathsOf(_)
PathsOf(n) ==
    IF n = 0 THEN {""}
    ELSE { p \o "/" \o a : p \in PathsOf(n - 1), a \in Segments }

Paths == UNION { PathsOf(n) : n \in 1..MaxSegments }

\* <Routes> for a location: the matched element; a <Navigate to replace>
\* element replaces the location, and <Routes> renders for the new one
render(pathname) ==
    LET m == matchRoutes(pathname)
    IN  IF m = 0
        THEN [requested |-> Some(pathname), pathname |-> pathname,
              element |-> "null", redirected |-> FALSE]
        ELSE IF routes[m].element = "Navigate"
        THEN LET n == matchRoutes(routes[m].to.value)
             IN  [requested |-> Some(pathname), pathname |-> routes[m].to.value,
                  element |-> IF n = 0 THEN "null" ELSE routes[n].element,
                  redirected |-> TRUE]
        ELSE [requested |-> Some(pathname), pathname |-> pathname,
              element |-> routes[m].element, redirected |-> FALSE]

\* what is rendered for each URL (the routes never change)
rendered == [pathname \in Paths |-> render(pathname)]

\* the browser opens a URL
Visit ==
    /\ \E pathname \in Paths : router' = rendered[pathname]
    /\ UNCHANGED appVars

SpecRoutes == Init /\ [][Visit]_vars

-----------------------------------------------------------------------------
(* Notions the properties are stated in *)

IsPrefix(s, t) == Len(s) <= Len(t) /\ SubSeq(t, 1, Len(s)) = s

\* some character of s is not whitespace
NonBlank(s) == \E i \in 1..Len(s) : ~IsWhitespace(SubSeq(s, i, i))

\* the user's messages, in list order
UserMessages(messages) == SelectSeq(messages, LAMBDA m : m.sender = "user")

\* a message as sendMessage is to build it from a text
UserMessage(text) ==
    [text |-> text, sender |-> "user", buttons |-> undefined,
     quick_replies |-> undefined, metadata |-> undefined]

\* the step ran a user handler that calls sendMessage; SentText is its text
IsSendEvt(evt) == evt.type \in {"submit", "quick_reply"}

SentText(evt) == IF evt.type = "submit" THEN evt.message ELSE evt.title

-----------------------------------------------------------------------------
(* C1: the message list is append-only: on every step, whatever handler
   takes it, the list before the step is a prefix of the list after it. *)
C1_AppendOnly ==
    [][IsPrefix(chatState.messages, chatState.messages')]_vars

\* a user's message and a reply are in the list, and a later connect came
C1_Witness ==
    /\ Len(chatState.messages) >= 3
    /\ nConnect >= 2
    /\ lastEvt.type = "connect"

(* C2, as stated: isTyping is the is_typing of the most recent typing event,
   and false while none has come. *)
C2_Original ==
    chatState.isTyping = (IF lastTypingEvt.some THEN lastTypingEvt.value ELSE FALSE)

(* C2, amended: isTyping is false at first; a typing event sets it to its
   is_typing, a bot_response event to false, a send of a non-blank text to
   true; no other step changes it. *)
C2_Typing ==
    /\ chatState.isTyping = FALSE
    /\ [][ chatState.isTyping' =
             CASE lastEvt'.type = "typing" -> lastTypingEvt'.value
               [] lastEvt'.type = "bot_response" -> FALSE
               [] IsSendEvt(lastEvt') /\ NonBlank(SentText(lastEvt')) -> TRUE
               [] OTHER -> chatState.isTyping ]_vars

\* the server said "not typing", and the user's send has raised the flag since
C2_Witness ==
    /\ lastTypingEvt = Some(FALSE)
    /\ lastEvt.type = "submit"
    /\ chatState.isTyping

(* C3: isConnected is true exactly when a connect event has come and no
   disconnect event since; it is false before the first connect. *)
C3_Connected ==
    chatState.isConnected = (socketRef = "connected")

\* a reconnection, then a send and a typing event, and the flag still stands
C3_Witness ==
    /\ nConnect >= 2
    /\ chatState.isConnected
    /\ lastEvt.type = "typing"
    /\ Len(emitted) >= 1

C4_Kept ==
    /\ Len(UserMessages(chatState.messages)) = nSend
    /\ \A k \in 1..Len(emitted) :
         /\ k <= Len(UserMessages(chatState.messages))
         /\ UserMessages(chatState.messages)[k].text = emitted[k].message

C4_Step ==
    IsSendEvt(lastEvt') /\ NonBlank(SentText(lastEvt'))
        => chatState.messages' =
               Append(chatState.messages, UserMessage(SentText(lastEvt')))

(* C4: a sendMessage call with a non-blank text appends the user's message,
   text as given, in the step that emits the event; the message of every
   emitted event is in the list in every later state, and every non-blank
   send has its message there, bot_response or not. *)
C4_Optimistic ==
    []C4_Kept /\ [][C4_Step]_vars

\* sent, never answered, and the connection lost since
C4_Witness ==
    /\ Len(emitted) >= 1
    /\ nBotResponse = 0
    /\ lastEvt.type = "disconnect"
    /\ \E i \in 1..Len(chatState.messages) :
         chatState.messages[i] = UserMessage(emitted[1].message)

(* C5: reconnection is transparent: a disconnect event leaves the message
   list and isTyping as they were, and so does the connect event that
   follows it. *)
C5_Reconnect ==
    [][ /\ lastEvt'.type = "disconnect" =>
             /\ chatState.messages' = chatState.messages
             /\ chatState.isTyping' = chatState.isTyping
             /\ ~chatState.isConnected'
        /\ lastEvt.type = "disconnect" /\ lastEvt'.type = "connect" =>
             /\ chatState.messages' = chatState.messages
             /\ chatState.isTyping' = chatState.isTyping
             /\ chatState.isConnected' ]_vars

\* what activating a chip (title, payload) is to do
QuickReplySends(title, payload) ==
    /\ emitted' = Append(emitted,
           [sender |-> clientId, message |-> title, payload |-> Some(payload),
            metadata |-> [language |-> chatState.currentLanguage]])
    /\ chatState.messages' = Append(chatState.messages, UserMessage(title))

(* C6, as stated: activating a chip or a button that carries (title, payload)
   emits one event with that message and payload and appends one user
   message with text = title. *)
C6_Original ==
    [][ lastEvt'.type = "quick_reply" =>
            QuickReplySends(lastEvt'.title, lastEvt'.payload) ]_vars

(* C6, amended: activating a chip or a button that carries (title, payload)
   with a non-blank title emits one event with that message and payload and
   appends one user message with text = title; with a blank title it emits
   nothing and appends nothing. *)
C6_QuickReply ==
    [][ lastEvt'.type = "quick_reply" =>
            IF NonBlank(lastEvt'.title)
            THEN QuickReplySends(lastEvt'.title, lastEvt'.payload)
            ELSE UNCHANGED <<emitted, chatState>> ]_vars

\* the action button of a bot response has been activated
C6_Witness ==
    /\ lastEvt = [type |-> "quick_reply", title |-> "Enroll", payload |-> "/enroll"]
    /\ emitted[Len(emitted)].payload = Some("/enroll")

C8_Submit ==
    [][ lastEvt'.type = "submit" =>
            IF NonBlank(inputMessage)
            THEN /\ Len(emitted') = Len(emitted) + 1
                 /\ SubSeq(emitted', 1, Len(emitted)) = emitted
                 /\ emitted'[Len(emitted')].sender = clientId
                 /\ emitted'[Len(emitted')].message = inputMessage
            ELSE /\ emitted' = emitted
                 /\ chatState.messages' = chatState.messages
                 /\ chatState.isTyping' = chatState.isTyping
                 /\ inputMessage' = inputMessage ]_vars

\* a typed text was sent, and a whitespace-only submit came after it
C8_Witness ==
    /\ lastEvt = [type |-> "submit", message |-> " \n"]
    /\ \E k \in 1..Len(emitted) :
         emitted[k].message = " hi " /\ emitted[k].payload = undefined

\* message j is a response the server gave to an emitted event
IsReply(m) ==
    m.sender = "bot" /\ m.metadata.some /\ m.metadata.value.in_reply_to > 0

(* C9: a bot response that answers the r-th emitted event stands in the list
   after the r-th user message, which has that event's text. *)
C9_Order ==
    \A j \in 1..Len(chatState.messages) :
        IsReply(chatState.messages[j]) =>
            \E i \in 1..(j - 1) :
                /\ chatState.messages[i] =
                       UserMessage(emitted[chatState.messages[j].metadata.value.in_reply_to].message)
                /\ Cardinality({ k \in 1..i : chatState.messages[k].sender = "user" })
                       = chatState.messages[j].metadata.value.in_reply_to

\* an answered send, with a typing event and a disconnect in between or after
C9_Witness ==
    /\ \E j \in 1..Len(chatState.messages) : IsReply(chatState.messages[j])
    /\ lastTypingEvt.some
    /\ ~chatState.isConnected

(* C10: the length of the message list is the number of connect events plus
   the number of bot_response events plus the number of non-blank sends. *)
C10_Count ==
    Len(chatState.messages) = nConnect + nBotResponse + nSend

\* every kind of event has added its message
C10_Witness ==
    /\ nConnect >= 1
    /\ nBotResponse >= 1
    /\ nSend >= 1
    /\ Len(chatState.messages) >= 3

-----------------------------------------------------------------------------
(* Notions the properties of the store are stated in *)

SliceNames == {"chat", "user", "courses", "analytics", "ui"}

\* the step dispatched an action; LastAction is the action
Dispatched == Len(dispatched') = Len(dispatched) + 1

LastAction(log) == log[Len(log)]

IsSuffix(s, t) == Len(s) <= Len(t) /\ SubSeq(t, Len(t) - Len(s) + 1, Len(t)) = s

\* the index of the last action of the type in the log, 0 when there is none
LastIndexOf(log, type) ==
    IF \E i \in 1..Len(log) : log[i].type = type
    THEN CHOOSE i \in 1..Len(log) :
             log[i].type = type /\ \A j \in (i + 1)..Len(log) : log[j].type # type
    ELSE 0

\* the payloads passed to chat/addMessage since the last action of the type
AddedSince(log, type) ==
    LET added == SelectSeq(SubSeq(log, LastIndexOf(log, type) + 1, Len(log)),
                           LAMBDA a : a.type = "chat/addMessage")
    IN  [k \in 1..Len(added) |-> added[k].payload]

(* C11: an action of one slice changes the state of that slice alone: the
   states of the four other slices are the same after the dispatch, also
   for setLoading and setError, which several slices have. *)
C11_SelfContained ==
    [][ Dispatched =>
          \A name \in SliceNames :
              ~StartsWith(LastAction(dispatched').type, name \o "/")
                  => store'[name] = store[name] ]_vars

\* the user slice is loading, and a setLoading(false) of the courses slice
\* came after
C11_Witness ==
    /\ Len(dispatched) = 2
    /\ dispatched[1].type = "user/setLoading"
    /\ dispatched[2].type = "courses/setLoading"
    /\ store.user.isLoading
    /\ ~store.courses.isLoading

-----------------------------------------------------------------------------
(* The chat slice as a second model of the panel: the actions an event of
   the panel stands for, and the slice state that goes with a panel state *)

WelcomeMessage ==
    [text |-> WelcomeText, sender |-> "bot", buttons |-> undefined,
     quick_replies |-> Some(WelcomeQuickReplies), metadata |-> undefined]

BotMessage(data) ==
    [text |-> data.text, sender |-> "bot", buttons |-> data.buttons,
     quick_replies |-> data.quick_replies, metadata |-> data.metadata]

\* the chat actions that stand for an event; typing is the is_typing of a
\* typing event
Mapped(evt, typing) ==
    CASE evt.type = "connect" ->
             << Action("chat/setConnected", TRUE),
                Action("chat/addMessage", WelcomeMessage) >>
      [] evt.type = "disconnect" ->
             << Action("chat/setConnected", FALSE) >>
      [] evt.type = "typing" ->
             << Action("chat/setTyping", typing) >>
      [] evt.type = "bot_response" ->
             << Action("chat/setTyping", FALSE),
                Action("chat/addMessage", BotMessage(evt.data)) >>
      [] IsSendEvt(evt) /\ NonBlank(SentText(evt)) ->
             << Action("chat/addMessage", UserMessage(SentText(evt))),
                Action("chat/setTyping", TRUE) >>
      [] OTHER -> << >>

RECURSIVE Reduce(_, _)
\* the slice state after the actions, dispatched in order
Reduce(state, actions) ==
    IF actions = << >> THEN state
    ELSE Reduce(chatReducer(state, Head(actions)), Tail(actions))

\* the slice state that has the panel's messages, isTyping and isConnected;
\* the mapped actions never clear, so the history is the message list
SliceOf(cs) ==
    [chatInitialState EXCEPT !.messages = cs.messages,
                             !.isTyping = cs.isTyping,
                             !.isConnected = cs.isConnected,
                             !.conversationHistory = cs.messages]

(* C12: the chat slice, given the actions that stand for the panel's events,
   goes through the same messages, isTyping and isConnected as the panel:
   the two start equal, and every event of the panel takes the slice state
   that equals the panel's before it to the one that equals the panel's
   after it. *)
C12_TwoModels ==
    /\ SliceOf(chatState) = chatInitialState
    /\ [][ Reduce(SliceOf(chatState),
                  Mapped(lastEvt', IF lastTypingEvt'.some THEN lastTypingEvt'.value
                                   ELSE FALSE))
             = SliceOf(chatState') ]_vars

\* a session with a welcome, a send, a response and a typing event, then
\* disconnected
C12_Witness ==
    /\ lastEvt.type = "disconnect"
    /\ Len(chatState.messages) = 3
    /\ nSend >= 1
    /\ nBotResponse >= 1
    /\ lastTypingEvt.some
    /\ ~chatState.isConnected

-----------------------------------------------------------------------------
(* Notions the property of the routes is stated in *)

\* the routes with a page of their own
DefinedRoutes == { i \in 1..Len(routes) : routes[i].path # "*" }

\* the path a route is written with: /admin for /admin/*
WrittenPath(i) ==
    IF EndsWith(routes[i].path, "/*")
    THEN SubSeq(routes[i].path, 1, Len(routes[i].path) - 2)
    ELSE routes[i].path

(* C13: a URL that matches no route with a page of its own is redirected
   to the home path / and shows the landing page; a URL that matches such
   a route, the path the route is written with among them, shows that
   route's page and keeps its location. *)
C13_Fallback ==
    router.requested.some =>
        LET pathname == router.requested.value
        IN  /\ (\A i \in DefinedRoutes : ~matchPath(routes[i].path, pathname))
                  => /\ router.redirected
                     /\ router.pathname = "/"
                     /\ router.element = "LandingPage"
            /\ \A i \in DefinedRoutes :
                  (pathname = WrittenPath(i) \/ matchPath(routes[i].path, pathname))
                      => /\ ~router.redirected
                         /\ router.pathname = pathname
                         /\ router.element = routes[i].element

\* an unknown path below a known segment was asked for and redirected
C13_Witness ==
    /\ router.requested = Some("/chat/users")
    /\ router.redirected
    /\ router.pathname = "/"

-----------------------------------------------------------------------------
(* Notions the property of the course filter is stated in *)

\* the course passes the filters
Keeps(course, filters) ==
    /\ filters.category # "" => course.category = filters.category
    /\ filters.level # "" => course.level = filters.level
    /\ filters.priceRange[1] <= course.price
    /\ course.price <= filters.priceRange[2]
    /\ filters.searchQuery # "" =>
           \E field \in {course.title, course.description, course.instructor} :
               includes(toLowerCase(field), toLowerCase(filters.searchQuery))

(* C14: filterCourses sets filteredCourses to the courses that pass all the
   filters (category and level when set, the price range with both bounds
   included, the search query without regard to case in the title, the
   description or the instructor), in the order of the course list, and
   leaves the course list and the filters as they were. *)
C14_Filter ==
    [][ (Dispatched /\ LastAction(dispatched').type = "courses/filterCourses") =>
          /\ store'.courses.filteredCourses =
                 SelectSeq(store.courses.courses,
                           LAMBDA course : Keeps(course, store.courses.filters))
          /\ store'.courses.courses = store.courses.courses
          /\ store'.courses.filters = store.courses.filters ]_vars

\* a search query is set, and the filter has kept some of the courses and
\* dropped others
C14_Witness ==
    /\ Len(dispatched) = 3
    /\ LastAction(dispatched).type = "courses/filterCourses"
    /\ store.courses.filters.searchQuery # ""
    /\ Len(store.courses.filteredCourses) > 0
    /\ Len(store.courses.filteredCourses) < Len(store.courses.courses)

-----------------------------------------------------------------------------
(* C15: a system event leaves the messages, isTyping and isConnected as
   they were; it raises an error notification with the event's message when
   its message_type is 'error', and a success notification with the
   event's message for every other message_type. *)
C15_System ==
    [][ lastEvt'.type = "system" =>
          /\ chatState'.messages = chatState.messages
          /\ chatState'.isTyping = chatState.isTyping
          /\ chatState'.isConnected = chatState.isConnected
          /\ toast'.some
          /\ toast'.value.message = lastEvt'.data.message
          /\ (toast'.value.kind = "error") = (lastEvt'.data.message_type = "error")
          /\ (toast'.value.kind = "success") = (lastEvt'.data.message_type # "error")
      ]_vars

\* a system event of a kind other than 'error' came while the bot was typing
C15_Witness ==
    /\ lastEvt.type = "system"
    /\ lastEvt.data.message_type = "warning"
    /\ toast = Some([kind |-> "success", message |-> "Session restored"])
    /\ chatState.isTyping
    /\ Len(chatState.messages) = 2

-----------------------------------------------------------------------------
(* C16: while isConnected is false no user action sends: a step from a
   state with isConnected false, a form submit or the click of a chip or
   button of an earlier message among them, appends no user message to the
   list and emits no `message` event. *)
C16_OfflineNoSend ==
    [][ ~chatState.isConnected =>
          /\ emitted' = emitted
          /\ UserMessages(chatState'.messages) = UserMessages(chatState.messages)
      ]_vars

(* C17: the typing indicator is not shown while the panel is offline: in
   every reachable state, isConnected false implies isTyping false. *)
C17_OfflineNotTyping == ~chatState.isConnected => ~chatState.isTyping

(* C18: the click of a quick-reply chip or of an action button leaves the
   text typed in the input box as it was. *)
C18_DraftKept ==
    [][ lastEvt'.type = "quick_reply" => inputMessage' = inputMessage ]_vars

-----------------------------------------------------------------------------
(* C19: in the chat slice, messages holds, in order, the payloads given to
   addMessage since the last clearMessages, and conversationHistory those
   given since the last clearHistory (since the start when there was none);
   so the history outlives clearMessages, and one of the two lists is a
   suffix of the other. *)
C19_History ==
    /\ store.chat.messages = AddedSince(dispatched, "chat/clearMessages")
    /\ store.chat.conversationHistory = AddedSince(dispatched, "chat/clearHistory")
    /\ \/ IsSuffix(store.chat.messages, store.chat.conversationHistory)
       \/ IsSuffix(store.chat.conversationHistory, store.chat.messages)

\* a message was added on either side of a clearMessages
C19_Witness ==
    /\ Len(dispatched) = 3
    /\ dispatched[2].type = "chat/clearMessages"
    /\ Len(store.chat.messages) = 1
    /\ Len(store.chat.conversationHistory) = 2

(* C20: in the user slice, whatever actions were dispatched, isAuthenticated
   is true exactly when currentUser is not null. *)
C20_Authenticated == store.user.isAuthenticated = store.user.currentUser.some

\* a user was set, had the preferences updated, and was cleared
C20_Witness ==
    /\ Len(dispatched) = 3
    /\ dispatched[1].type = "user/setUser"
    /\ dispatched[2].type = "user/updateUserPreferences"
    /\ dispatched[3].type = "user/clearUser"
    /\ ~store.user.isAuthenticated
    /\ ~store.user.currentUser.some

-----------------------------------------------------------------------------
(* C21: in the courses slice, as long as no setPagination was dispatched,
   pagination.total is the number of entries of filteredCourses. *)
C21_Total ==
    (\A i \in 1..Len(dispatched) : dispatched[i].type # "courses/setPagination")
        => store.courses.pagination.total = Len(store.courses.filteredCourses)

(* C22: cleared filters exclude no course: filterCourses dispatched right
   after clearFilters leaves filteredCourses equal to courses, whatever the
   prices of the courses. *)
C22_ClearedKeepsAll ==
    [][ ( /\ Dispatched
          /\ LastAction(dispatched').type = "courses/filterCourses"
          /\ Len(dispatched) >= 1
          /\ LastAction(dispatched).type = "courses/clearFilters" )
          => store'.courses.filteredCourses = store'.courses.courses ]_vars

====
